---- MODULE Spec2Model ----
(***************************************************************************)
(* Model of the crowd-funding Solana program (program/src/lib.rs): the     *)
(* dispatcher process_instruction and the handlers create_campain,         *)
(* withdraw and donate, together with the Borsh codec of CampainDetails    *)
(* and WithdrawRequest they use and the account buffers (lamports, data)   *)
(* they act on.                                                            *)
(*                                                                         *)
(* Scale.  A byte takes the values 0..ByteBase-1 (256 in the program), a   *)
(* Pubkey is one byte (32 in the program), a Borsh string length prefix is *)
(* one byte (a 4-byte little-endian u32 in the program) and a u64 is two   *)
(* bytes, little-endian (8 in the program).  All arithmetic on lamports    *)
(* and amount_donated keeps that width: it is done modulo U64Mod, or       *)
(* panics, as the build's overflow-checks setting decides.                 *)
(***************************************************************************)
EXTENDS Integers, Sequences, FiniteSets, TLC

\* ------------------------------------------------------------------ bounds
\* number of values of one byte
ByteBase == 5
\* lamports the second program-owned account (a donor's staging account) is funded with
Donation == 13
\* number of calls whose effects the host commits in one behaviour
MaxCommits == 4
\* rent: lamports per byte of (overhead + data_len)
StorageOverhead == 1

Byte == 0..(ByteBase - 1)
U64Mod == ByteBase * ByteBase
U64Max == U64Mod - 1

\* ---------------------------------------------------------------- accounts
\* Accounts 1 and 2 are owned by this program (storage cells created by the
\* front end), account 3 is a user's wallet owned by the system program.
\* The key of account a is the byte a; key 0 is Pubkey::default().
Accounts == {1, 2, 3}
ProgramId == ByteBase - 1
key(a) == a
owner(a) == IF a \in {1, 2} THEN ProgramId ELSE 0

\* ------------------------------------------------------------------- codec
\* CampainDetails {admin, name, description, image_link, amount_donated}
CampainDetails(admin, name, description, image_link, amount_donated) ==
    [admin |-> admin, name |-> name, description |-> description,
     image_link |-> image_link, amount_donated |-> amount_donated]

serialize_u64(n) == << n % ByteBase, n \div ByteBase >>
serialize_string(s) == << Len(s) >> \o s

\* BorshSerialize for CampainDetails: the fields in declaration order
serialize(c) ==
    << c.admin >> \o serialize_string(c.name) \o serialize_string(c.description)
        \o serialize_string(c.image_link) \o serialize_u64(c.amount_donated)

\* the smallest encoding of a CampainDetails (three empty strings)
MinRecordLen == Len(serialize(CampainDetails(0, <<>>, <<>>, <<>>, 0)))

\* data_len of each account: the first cell has one spare byte, the second
\* fits the smallest record exactly, the wallet holds no data.
data_len(a) == IF a = 1 THEN MinRecordLen + 1 ELSE IF a = 2 THEN MinRecordLen ELSE 0

\* Readers: each consumes a prefix of buf; ok = FALSE is an io::Error.
ReadFail == [ok |-> FALSE, val |-> 0, rest |-> <<>>]
read_byte(buf) ==
    IF Len(buf) < 1 THEN ReadFail
    ELSE [ok |-> TRUE, val |-> buf[1], rest |-> Tail(buf)]
read_u64(buf) ==
    IF Len(buf) < 2 THEN ReadFail
    ELSE [ok |-> TRUE, val |-> buf[1] + ByteBase * buf[2], rest |-> SubSeq(buf, 3, Len(buf))]
read_string(buf) ==
    IF Len(buf) < 1 THEN [ok |-> FALSE, val |-> <<>>, rest |-> <<>>]
    ELSE IF Len(buf) - 1 < buf[1] THEN [ok |-> FALSE, val |-> <<>>, rest |-> <<>>]
    ELSE [ok |-> TRUE, val |-> SubSeq(buf, 2, buf[1] + 1),
          rest |-> SubSeq(buf, buf[1] + 2, Len(buf))]

NoRecord == CampainDetails(0, <<>>, <<>>, <<>>, 0)

\* BorshDeserialize::deserialize for CampainDetails: reads the fields in order
\* from the front of buf and leaves the unread bytes in rest.
deserialize(buf) ==
    LET a == read_byte(buf)
        n == read_string(a.rest)
        d == read_string(n.rest)
        i == read_string(d.rest)
        m == read_u64(i.rest)
    IN  IF a.ok /\ n.ok /\ d.ok /\ i.ok /\ m.ok
        THEN [ok |-> TRUE, val |-> CampainDetails(a.val, n.val, d.val, i.val, m.val),
              rest |-> m.rest]
        ELSE [ok |-> FALSE, val |-> NoRecord, rest |-> <<>>]

\* BorshDeserialize::try_from_slice: deserialize, then fail unless every byte
\* of the slice was read.
try_from_slice(buf) ==
    LET r == deserialize(buf)
    IN  IF r.ok /\ r.rest = <<>> THEN [ok |-> TRUE, val |-> r.val]
        ELSE [ok |-> FALSE, val |-> NoRecord]

\* WithdrawRequest {amount: u64}
try_from_slice_WithdrawRequest(buf) ==
    LET r == read_u64(buf)
    IN  IF r.ok /\ r.rest = <<>> THEN [ok |-> TRUE, amount |-> r.val]
        ELSE [ok |-> FALSE, amount |-> 0]

\* serialize(&mut &mut data[..]): io::Write for &mut [u8] copies as many bytes
\* as fit at the front of the cell and fails when some did not fit; the bytes
\* of the cell beyond the encoding stay as they were.
write_slice(cell, bytes) ==
    [ok   |-> Len(bytes) <= Len(cell),
     data |-> [i \in 1..Len(cell) |-> IF i <= Len(bytes) THEN bytes[i] ELSE cell[i]]]

\* Rent::minimum_balance(data_len): linear in the stored size
minimum_balance(len) == StorageOverhead + len


\* ------------------------------------------------------------------- state
VARIABLES
    lamports,         \* lamports[a]: the balance of account a, as last committed by the host
    data,             \* data[a]: the bytes of account a's cell, as last committed by the host
    overflow_checks,  \* the build's overflow-checks setting (fixed by the build)
    call,             \* the call in progress: op, accounts, is_signer, payload (op "none": no call)
    ret,              \* what the call returned, and the account buffers as its handler left them
    created,          \* created[a]: the admin written by the first committed create on cell a, or NotCreated
    commits,          \* number of calls committed so far
    scenario          \* how far the committed calls have followed Create, Donate, Withdraw of the donation

vars == << lamports, data, overflow_checks, call, ret, created, commits, scenario >>

\* u64 arithmetic: with overflow-checks an overflow panics, without it wraps
add_overflows(a, b) == a + b > U64Max
sub_overflows(a, b) == a < b
wrapping_add(a, b) == (a + b) % U64Mod
wrapping_sub(a, b) == (a - b + U64Mod) % U64Mod

\* A handler's return: its result (Ok, a ProgramError, or Panic when the
\* program aborted) and the account buffers as it left them.
Ret(result, lam, dat) == [result |-> result, lamports |-> lam, data |-> dat]

\* ---------------------------------------------------------------- handlers
\* is_signer is the is_signer flag of the AccountInfo whose flag the handler
\* reads (accounts[2] for create and withdraw, accounts[3] for donate).

\* mutant: the payload's amount_donated is stored as it came
initial_campaign_keeps_amount(input_data) == input_data

\* line 126: the record create_campain stores
initial_campaign(input_data) ==
    CampainDetails(input_data.admin, input_data.name, input_data.description,
                   input_data.image_link, 0)

create_campain(accounts, is_signer, instruction_data) ==
    IF Len(accounts) < 2 THEN Ret("NotEnoughAccountKeys", lamports, data)
    ELSE
    LET writing_account == accounts[1]
        creator_account == accounts[2]
        input_data == try_from_slice(instruction_data)
        rent_exemption == minimum_balance(Len(data[writing_account]))
        w == write_slice(data[writing_account], serialize(initial_campaign(input_data.val)))
        data_after == [data EXCEPT ![writing_account] = w.data]
    IN  IF ~is_signer THEN Ret("IncorrectProgramId", lamports, data)
        ELSE IF owner(writing_account) # ProgramId THEN Ret("IncorrectProgramId", lamports, data)
        ELSE IF ~input_data.ok THEN Ret("Panic", lamports, data)
        ELSE IF input_data.val.admin # key(creator_account)
             THEN Ret("InvalidInstructionData", lamports, data)
        ELSE IF lamports[writing_account] < rent_exemption
             THEN Ret("InsufficientFunds", lamports, data)
        ELSE IF ~w.ok THEN Ret("BorshIoError", lamports, data_after)
        ELSE Ret("Ok", lamports, data_after)

\* mutant: any signer may withdraw
is_admin_anyone(campaign_data, admin_account) == TRUE

\* line 172: only the admin of the stored record may withdraw
is_admin(campaign_data, admin_account) == campaign_data.admin = key(admin_account)

\* mutant: the rent exemption is not kept back
not_enough_funds_ignoring_rent(balance, rent_exemption, amount) == balance < amount

\* line 191: what the balance holds above the rent exemption is less than the amount
not_enough_funds(balance, rent_exemption, amount) ==
    wrapping_sub(balance, rent_exemption) < amount

\* lines 200 and 201: -= and += on the lamports of one account
debit(lam, a, amount) == [lam EXCEPT ![a] = wrapping_sub(lam[a], amount)]
\* mutant: the admin account is not credited
credit_dropped(lam, a, amount) == lam
credit(lam, a, amount) == [lam EXCEPT ![a] = wrapping_add(lam[a], amount)]

withdraw(accounts, is_signer, instruction_data) ==
    IF Len(accounts) < 2 THEN Ret("NotEnoughAccountKeys", lamports, data)
    ELSE
    LET writing_account == accounts[1]
        admin_account == accounts[2]
        campaign_data == try_from_slice(data[writing_account])
        input_data == try_from_slice_WithdrawRequest(instruction_data)
        rent_exemption == minimum_balance(Len(data[writing_account]))
        balance == lamports[writing_account]
        lam1 == debit(lamports, writing_account, input_data.amount)
        lam2 == credit(lam1, admin_account, input_data.amount)
    IN  IF ~is_signer THEN Ret("IncorrectProgramId", lamports, data)
        ELSE IF owner(writing_account) # ProgramId THEN Ret("IncorrectProgramId", lamports, data)
        ELSE IF ~campaign_data.ok THEN Ret("Panic", lamports, data)
        ELSE IF ~is_admin(campaign_data.val, admin_account)
             THEN Ret("InvalidAccountData", lamports, data)
        ELSE IF ~input_data.ok THEN Ret("Panic", lamports, data)
        ELSE IF overflow_checks /\ sub_overflows(balance, rent_exemption)
             THEN Ret("Panic", lamports, data)
        ELSE IF not_enough_funds(balance, rent_exemption, input_data.amount)
             THEN Ret("InsufficientFunds", lamports, data)
        ELSE IF overflow_checks /\ sub_overflows(balance, input_data.amount)
             THEN Ret("Panic", lamports, data)
        ELSE IF overflow_checks /\ add_overflows(lam1[admin_account], input_data.amount)
             THEN Ret("Panic", lam1, data)
        ELSE Ret("Ok", lam2, data)

\* mutant: the donation also clears the campaign's name
add_donation_renames(campaign_data, moved) ==
    CampainDetails(campaign_data.admin, <<>>, campaign_data.description,
                   campaign_data.image_link, wrapping_add(campaign_data.amount_donated, moved))

\* line 246: amount_donated += the lamports of the donator's program account
add_donation(campaign_data, moved) ==
    CampainDetails(campaign_data.admin, campaign_data.name, campaign_data.description,
                   campaign_data.image_link, wrapping_add(campaign_data.amount_donated, moved))

\* mutant: the donator's program account keeps its lamports
transfer_all_keeps_staging(lam, writing_account, donator_program_account) ==
    credit(lam, writing_account, lam[donator_program_account])

\* lines 251 and 252: the writing account receives the lamports of the
\* donator's program account, which is then set to 0
transfer_all(lam, writing_account, donator_program_account) ==
    [credit(lam, writing_account, lam[donator_program_account])
        EXCEPT ![donator_program_account] = 0]

donate(accounts, is_signer, instruction_data) ==
    IF Len(accounts) < 3 THEN Ret("NotEnoughAccountKeys", lamports, data)
    ELSE
    LET writing_account == accounts[1]
        donator_program_account == accounts[2]
        campaign_data == try_from_slice(data[writing_account])
        moved == lamports[donator_program_account]
        old == campaign_data.val
        updated == add_donation(old, moved)
        lam2 == transfer_all(lamports, writing_account, donator_program_account)
        w == write_slice(data[writing_account], serialize(updated))
        data_after == [data EXCEPT ![writing_account] = w.data]
    IN  IF ~is_signer THEN Ret("IncorrectProgramId", lamports, data)
        ELSE IF owner(writing_account) # ProgramId THEN Ret("IncorrectProgramId", lamports, data)
        ELSE IF owner(donator_program_account) # ProgramId
             THEN Ret("IncorrectProgramId", lamports, data)
        ELSE IF ~campaign_data.ok THEN Ret("Panic", lamports, data)
        ELSE IF overflow_checks /\ add_overflows(old.amount_donated, moved)
             THEN Ret("Panic", lamports, data)
        \* line 251: the Ref of the right operand is still alive when the left
        \* operand asks for the RefMut of the same RefCell
        ELSE IF writing_account = donator_program_account
             THEN Ret("AccountBorrowFailed", lamports, data)
        ELSE IF overflow_checks /\ add_overflows(lamports[writing_account], moved)
             THEN Ret("Panic", lamports, data)
        ELSE IF ~w.ok THEN Ret("BorshIoError", lam2, data_after)
        ELSE Ret("Ok", lam2, data_after)

\* mutant: the handlers are given the instruction data with its opcode byte
process_instruction_keeps_opcode(accounts, is_signer, instruction_data) ==
    IF Len(instruction_data) = 0 THEN Ret("InvalidInstructionData", lamports, data)
    ELSE IF instruction_data[1] = 0 THEN create_campain(accounts, is_signer, instruction_data)
    ELSE IF instruction_data[1] = 1 THEN withdraw(accounts, is_signer, instruction_data)
    ELSE IF instruction_data[1] = 2 THEN donate(accounts, is_signer, instruction_data)
    ELSE Ret("InvalidInstructionData", lamports, data)

\* The dispatcher: byte 0 selects the handler, the rest is its payload.
process_instruction(accounts, is_signer, instruction_data) ==
    IF Len(instruction_data) = 0 THEN Ret("InvalidInstructionData", lamports, data)
    ELSE IF instruction_data[1] = 0
         THEN create_campain(accounts, is_signer, Tail(instruction_data))
    ELSE IF instruction_data[1] = 1
         THEN withdraw(accounts, is_signer, Tail(instruction_data))
    ELSE IF instruction_data[1] = 2
         THEN donate(accounts, is_signer, Tail(instruction_data))
    ELSE Ret("InvalidInstructionData", lamports, data)


\* -------------------------------------------------------------------- host
\* The host applies a call's effects as a unit: the buffers the handler left
\* are committed when it returned Ok and the lamports of the accounts still
\* add up to what they were; otherwise every effect of the call is discarded.
TotalLamports(lam) == lam[1] + lam[2] + lam[3]
HostCommits == ret.result = "Ok" /\ TotalLamports(ret.lamports) = TotalLamports(lamports)

NotCreated == ByteBase
NoCall == [op |-> "none", accounts |-> <<>>, is_signer |-> FALSE, payload |-> <<>>]
NoScenario == [step |-> 0, writing |-> 0, admin |-> 0, moved |-> 0]

\* ------------------------------------------------------------------ inputs
AccountLists(n) == [1..n -> Accounts] \cup {<<>>}

\* Create payloads: well-formed CampainDetails encodings (the admin any
\* account's key, with and without a name, carrying 0 or a non-zero
\* amount_donated), one cut short and one with a byte too many.
CreateRecords ==
    { CampainDetails(key(a), <<>>, <<>>, <<>>, v) : a \in Accounts, v \in {0, U64Max} }
    \cup { CampainDetails(key(a), <<1>>, <<>>, <<>>, U64Max) : a \in Accounts }
CreatePayloads ==
    { serialize(c) : c \in CreateRecords }
    \cup { SubSeq(serialize(c), 1, MinRecordLen - 1) : c \in {CampainDetails(key(3), <<>>, <<>>, <<>>, 0)} }
    \cup { serialize(c) \o <<0>> : c \in {CampainDetails(key(3), <<>>, <<>>, <<>>, 0)} }

\* Withdraw payloads: well-formed WithdrawRequest encodings, one cut short
\* and one with a byte too many.
WithdrawAmounts == {0, 1, Donation}
WithdrawPayloads ==
    { serialize_u64(n) : n \in WithdrawAmounts } \cup { <<1>>, <<1, 0, 0>> }

\* -------------------------------------------------------------------- Init
\* The cells are allocated zero-filled; the first is funded to exactly its
\* rent floor, the second holds Donation lamports, the wallet is empty.
Init ==
    /\ lamports = [a \in Accounts |->
                     IF a = 1 THEN minimum_balance(data_len(1))
                     ELSE IF a = 2 THEN Donation
                     ELSE 0]
    /\ data = [a \in Accounts |-> [i \in 1..data_len(a) |-> 0]]
    /\ overflow_checks \in BOOLEAN
    /\ call = NoCall
    /\ ret = Ret("none", lamports, data)
    /\ created = [a \in Accounts |-> NotCreated]
    /\ commits = 0
    /\ scenario = NoScenario

\* ----------------------------------------------------------------- actions
\* A call of the entrypoint runs its handler on the committed state and leaves
\* the handler's result and the buffers it wrote in ret; HostReturn follows.
Idle == call.op = "none" /\ commits < MaxCommits
Called(op, accounts, is_signer, instruction_data) ==
    [op |-> op, accounts |-> accounts, is_signer |-> is_signer,
     payload |-> IF instruction_data = <<>> THEN <<>> ELSE Tail(instruction_data)]

Create ==
    /\ Idle
    /\ \E accounts \in AccountLists(2), is_signer \in BOOLEAN, payload \in CreatePayloads :
        /\ call' = Called("create", accounts, is_signer, <<0>> \o payload)
        /\ ret' = process_instruction(accounts, is_signer, <<0>> \o payload)
        /\ UNCHANGED << lamports, data, overflow_checks, created, commits, scenario >>

Withdraw ==
    /\ Idle
    /\ \E accounts \in AccountLists(2), is_signer \in BOOLEAN, payload \in WithdrawPayloads :
        /\ call' = Called("withdraw", accounts, is_signer, <<1>> \o payload)
        /\ ret' = process_instruction(accounts, is_signer, <<1>> \o payload)
        /\ UNCHANGED << lamports, data, overflow_checks, created, commits, scenario >>

Donate ==
    /\ Idle
    /\ \E accounts \in AccountLists(3), is_signer \in BOOLEAN :
        /\ call' = Called("donate", accounts, is_signer, <<2>>)
        /\ ret' = process_instruction(accounts, is_signer, <<2>>)
        /\ UNCHANGED << lamports, data, overflow_checks, created, commits, scenario >>

\* Empty instruction data, or an opcode byte that selects no handler.
Invalid ==
    /\ Idle
    /\ \E instruction_data \in {<<>>} \cup { <<opcode>> : opcode \in Byte \ {0, 1, 2} } :
        /\ call' = Called("invalid", <<>>, FALSE, instruction_data)
        /\ ret' = process_instruction(<<>>, FALSE, instruction_data)
        /\ UNCHANGED << lamports, data, overflow_checks, created, commits, scenario >>

\* The call returns to the host, which commits its effects or discards them.
HostReturn ==
    /\ call.op # "none"
    /\ lamports' = IF HostCommits THEN ret.lamports ELSE lamports
    /\ data' = IF HostCommits THEN ret.data ELSE data
    /\ created' = IF call.op = "create" /\ HostCommits /\ created[call.accounts[1]] = NotCreated
                  THEN [created EXCEPT ![call.accounts[1]] = deserialize(ret.data[call.accounts[1]]).val.admin]
                  ELSE created
    /\ commits' = IF HostCommits THEN commits + 1 ELSE commits
    \* a committed Create on a cell funded to exactly its minimum balance starts
    \* the scenario; a Donate to that cell, then a Withdraw of the donated
    \* amount by the creator continue it; any other committed call ends it
    /\ scenario' =
          IF ~HostCommits THEN scenario
          ELSE IF /\ call.op = "create"
                  /\ lamports[call.accounts[1]] = minimum_balance(Len(data[call.accounts[1]]))
               THEN [step |-> 1, writing |-> call.accounts[1],
                     admin |-> call.accounts[2], moved |-> 0]
          ELSE IF /\ scenario.step = 1 /\ call.op = "donate"
                  /\ call.accounts[1] = scenario.writing
               THEN [scenario EXCEPT !.step = 2, !.moved = lamports[call.accounts[2]]]
          ELSE IF /\ scenario.step = 2 /\ call.op = "withdraw"
                  /\ call.accounts = << scenario.writing, scenario.admin >>
                  /\ try_from_slice_WithdrawRequest(call.payload).amount = scenario.moved
               THEN [scenario EXCEPT !.step = 3]
          ELSE NoScenario
    /\ call' = NoCall
    /\ ret' = Ret("none", lamports', data')
    /\ UNCHANGED overflow_checks

Next == Create \/ Withdraw \/ Donate \/ Invalid \/ HostReturn

Spec == Init /\ [][Next]_vars


\* ================================================================== claims
\* The claims are stated on the state in which a call has returned and the
\* host has not yet applied it: lamports and data are the accounts before the
\* call, ret.lamports and ret.data the accounts as the handler left them.

\* the record a handler reads from a cell, and the record at the front of a cell
stored(cell) == try_from_slice(cell)
front(cell) == deserialize(cell)
request == try_from_slice_WithdrawRequest(call.payload)
floor(a) == minimum_balance(Len(data[a]))

\* a Withdraw whose admin account signed, whose writing account is owned by
\* the program and holds a record whose admin is the admin account
WithdrawAuthorized ==
    /\ call.op = "withdraw"
    /\ Len(call.accounts) >= 2
    /\ call.is_signer
    /\ owner(call.accounts[1]) = ProgramId
    /\ stored(data[call.accounts[1]]).ok
    /\ stored(data[call.accounts[1]]).val.admin = key(call.accounts[2])

\* C1: once a Create has succeeded on a writing account, the admin stored in
\* that account's record is the same in every later state.
C1_AdminSetOnce ==
    \A a \in Accounts : created[a] # NotCreated => front(data[a]).val.admin = created[a]

\* C2: the amount_donated of a campaign record never decreases from one state
\* to the next; it changes only in a successful Donate, and then by exactly
\* the balance moved out of the staging account in that call.
C2_AmountDonatedOnlyGrowsByDonations ==
    HostCommits =>
        \A a \in Accounts : created[a] # NotCreated =>
            LET old == front(data[a]).val.amount_donated
                new == front(ret.data[a]).val.amount_donated
            IN  /\ new >= old
                /\ new # old =>
                     /\ call.op = "donate"
                     /\ a = call.accounts[1]
                     /\ new - old = lamports[call.accounts[2]] - ret.lamports[call.accounts[2]]

\* C3: a Withdraw changes a balance only if the writing account is
\* program-owned, the admin account signed and its identity is the admin of
\* the stored record; in every other case the call fails and moves nothing.
C3_WithdrawNeedsSigningAdmin ==
    call.op = "withdraw" /\ ~WithdrawAuthorized =>
        ret.result # "Ok" /\ ret.lamports = lamports

\* a signed Withdraw of funds that are there, by an account that is not the admin, fails
C3_Witness ==
    /\ call.op = "withdraw"
    /\ Len(call.accounts) >= 2
    /\ call.is_signer
    /\ owner(call.accounts[1]) = ProgramId
    /\ stored(data[call.accounts[1]]).ok
    /\ stored(data[call.accounts[1]]).val.admin # key(call.accounts[2])
    /\ request.ok /\ request.amount > 0
    /\ lamports[call.accounts[1]] >= floor(call.accounts[1]) + request.amount
    /\ ret.result = "InvalidAccountData"

\* C4: after every successful Donate of a staged amount m, amount_donated is
\* the old amount_donated + m, the staging balance is 0 and the writing
\* balance is the old writing balance + m, whichever accounts are passed.
C4_DonateMovesExactly ==
    call.op = "donate" /\ HostCommits =>
        LET w == call.accounts[1]
            s == call.accounts[2]
            m == lamports[s]
        IN  /\ front(ret.data[w]).val.amount_donated = front(data[w]).val.amount_donated + m
            /\ ret.lamports[s] = 0
            /\ ret.lamports[w] = lamports[w] + m

\* an authorized Withdraw with a well-formed request of at most what the
\* writing account holds above its rent floor
WithdrawWithinFunds ==
    /\ WithdrawAuthorized
    /\ request.ok
    /\ lamports[call.accounts[1]] >= floor(call.accounts[1])
    /\ request.amount <= lamports[call.accounts[1]] - floor(call.accounts[1])

\* C5 as stated: every such Withdraw leaves the writing balance at the old
\* balance - amount, the admin balance at the old admin balance + amount and
\* the stored bytes unchanged.
C5_WithdrawMovesAmount ==
    WithdrawWithinFunds =>
        /\ ret.result = "Ok"
        /\ ret.lamports[call.accounts[1]] = lamports[call.accounts[1]] - request.amount
        /\ ret.lamports[call.accounts[2]] = lamports[call.accounts[2]] + request.amount
        /\ ret.data = data

\* C5 (amended): every such Withdraw succeeds and leaves the stored bytes
\* unchanged; when the admin account is another account than the writing
\* account, the writing balance is the old balance - amount and the admin
\* balance the old admin balance + amount; when the same account is passed in
\* both positions its balance is unchanged.
C5_WithdrawMovesAmountBetweenDistinct ==
    WithdrawWithinFunds =>
        /\ ret.result = "Ok"
        /\ ret.data = data
        /\ IF call.accounts[1] # call.accounts[2]
           THEN /\ ret.lamports[call.accounts[1]] = lamports[call.accounts[1]] - request.amount
                /\ ret.lamports[call.accounts[2]] = lamports[call.accounts[2]] + request.amount
           ELSE ret.lamports[call.accounts[1]] = lamports[call.accounts[1]]

\* the admin, another account than the writing account, withdraws a positive amount
C5_Witness ==
    /\ WithdrawWithinFunds
    /\ call.accounts[1] # call.accounts[2]
    /\ request.amount > 0
    /\ ret.result = "Ok"

\* C6: a Withdraw by the signing admin on a writing account whose balance is
\* at least the rent floor, for more than the balance holds above the floor,
\* fails with InsufficientFunds and leaves both balances unchanged.
C6_WithdrawBeyondFundsFails ==
    /\ WithdrawAuthorized
    /\ request.ok
    /\ lamports[call.accounts[1]] >= floor(call.accounts[1])
    /\ request.amount > lamports[call.accounts[1]] - floor(call.accounts[1])
    => /\ ret.result = "InsufficientFunds"
       /\ ret.lamports[call.accounts[1]] = lamports[call.accounts[1]]
       /\ ret.lamports[call.accounts[2]] = lamports[call.accounts[2]]

\* the admin asks for an amount the balance covers but the rent floor does not allow
C6_Witness ==
    /\ WithdrawAuthorized
    /\ request.ok
    /\ lamports[call.accounts[1]] >= floor(call.accounts[1])
    /\ request.amount > lamports[call.accounts[1]] - floor(call.accounts[1])
    /\ request.amount <= lamports[call.accounts[1]]
    /\ ret.result = "InsufficientFunds"

\* C7: a Withdraw on a writing account whose balance is below the rent floor
\* is rejected with InsufficientFunds for every amount, 0 included, and
\* leaves all balances unchanged.
C7_WithdrawBelowFloorFails ==
    /\ WithdrawAuthorized
    /\ request.ok
    /\ lamports[call.accounts[1]] < floor(call.accounts[1])
    => ret.result = "InsufficientFunds" /\ ret.lamports = lamports

\* a Create whose creator signed, whose writing account is program-owned and
\* holds the minimum balance, and whose payload decodes with the creator as admin
CreateAccepted ==
    /\ call.op = "create"
    /\ Len(call.accounts) >= 2
    /\ call.is_signer
    /\ owner(call.accounts[1]) = ProgramId
    /\ lamports[call.accounts[1]] >= floor(call.accounts[1])
    /\ stored(call.payload).ok
    /\ stored(call.payload).val.admin = key(call.accounts[2])

\* the call succeeded and stored the payload's record with amount_donated 0
\* at the front of the writing account's cell, changing no balance
CreateStoredPayload ==
    /\ ret.result = "Ok"
    /\ front(ret.data[call.accounts[1]]).ok
    /\ front(ret.data[call.accounts[1]]).val =
           [stored(call.payload).val EXCEPT !.amount_donated = 0]
    /\ ret.lamports = lamports

\* C8 as stated: every such Create stores the payload's fields with
\* amount_donated 0 and changes no balance.
C8_CreateStoresPayload == CreateAccepted => CreateStoredPayload

\* C8 (amended): every such Create on a cell at least as large as the
\* encoding of the payload's record stores the payload's fields with
\* amount_donated 0 at the front of the cell and changes no balance.
C8_CreateStoresPayloadThatFits ==
    /\ CreateAccepted
    /\ Len(serialize(stored(call.payload).val)) <= Len(data[call.accounts[1]])
    => CreateStoredPayload

\* a payload carrying a non-zero amount_donated and a name is stored
C8_Witness ==
    /\ CreateAccepted
    /\ stored(call.payload).val.amount_donated # 0
    /\ stored(call.payload).val.name # <<>>
    /\ ret.result = "Ok"

\* C9: a call that ends in a failure leaves every account balance and every
\* stored byte as it was before the call.
C9_FailureChangesNothing ==
    call.op # "none" /\ ret.result # "Ok" =>
        ret.lamports = lamports /\ ret.data = data

\* the ProgramErrors that report bytes which do not decode
DataCorruption == {"InvalidInstructionData", "InvalidAccountData", "BorshIoError"}

\* a handler reaches the decoding of bytes that do not decode
DecodesMalformedBytes ==
    \/ /\ call.op = "create" /\ Len(call.accounts) >= 2 /\ call.is_signer
       /\ owner(call.accounts[1]) = ProgramId
       /\ ~stored(call.payload).ok
    \/ /\ call.op = "withdraw" /\ Len(call.accounts) >= 2 /\ call.is_signer
       /\ owner(call.accounts[1]) = ProgramId
       /\ ~stored(data[call.accounts[1]]).ok
    \/ WithdrawAuthorized /\ ~request.ok
    \/ /\ call.op = "donate" /\ Len(call.accounts) >= 3 /\ call.is_signer
       /\ owner(call.accounts[1]) = ProgramId /\ owner(call.accounts[2]) = ProgramId
       /\ ~stored(data[call.accounts[1]]).ok

\* C10: a handler given bytes that do not decode returns a DataCorruption
\* failure for that call; the program never aborts.
C10_MalformedBytesReturnError ==
    DecodesMalformedBytes => ret.result \in DataCorruption

\* the error kind a returned ProgramError reports to the caller
ErrorKind(result) ==
    CASE result = "MissingRequiredSignature" -> "AuthorizationError"
      [] result = "IncorrectProgramId"       -> "OwnershipError"
      [] result = "InvalidInstructionData"   -> "InvalidInstruction"
      [] result = "InsufficientFunds"        -> "InsufficientFunds"
      [] result = "InvalidAccountData"       -> "DataCorruption"
      [] result = "BorshIoError"             -> "DataCorruption"
      [] OTHER                               -> result

\* C11: Create fails with AuthorizationError when the creator is not a signer,
\* and with an InvalidInstruction failure when the payload's admin is not the
\* creator's identity; in both cases nothing is written to the writing
\* account's storage.
C11_CreateRejectsUnsignedAndForeignAdmin ==
    /\ call.op = "create" /\ Len(call.accounts) >= 2 /\ ~call.is_signer
       => ErrorKind(ret.result) = "AuthorizationError" /\ ret.data = data
    /\ /\ call.op = "create" /\ Len(call.accounts) >= 2 /\ call.is_signer
       /\ owner(call.accounts[1]) = ProgramId
       /\ stored(call.payload).ok
       /\ stored(call.payload).val.admin # key(call.accounts[2])
       => ErrorKind(ret.result) = "InvalidInstruction" /\ ret.data = data

\* C12: the dispatcher routes opcode byte 0 to Create, 1 to Withdraw and 2 to
\* Donate with the remaining bytes unchanged as payload; for empty instruction
\* bytes or any other opcode byte it fails with InvalidInstruction and changes
\* no balance and no stored byte.
C12_DispatchByOpcode ==
    /\ call.op = "create" => ret = create_campain(call.accounts, call.is_signer, call.payload)
    /\ call.op = "withdraw" => ret = withdraw(call.accounts, call.is_signer, call.payload)
    /\ call.op = "donate" => ret = donate(call.accounts, call.is_signer, call.payload)
    /\ call.op = "invalid" =>
          /\ ErrorKind(ret.result) = "InvalidInstruction"
          /\ ret.lamports = lamports
          /\ ret.data = data

\* an instruction that selects no handler has been rejected after calls were committed
C12_Witness ==
    /\ call.op = "invalid"
    /\ commits > 0
    /\ ret.result = "InvalidInstructionData"

\* the steps of the scenario, as pending calls: the Create that starts it on
\* a program-owned cell funded to exactly its rent floor, the Donate to its
\* cell, and a Withdraw by its creator
ScenarioCreate ==
    /\ CreateAccepted
    /\ lamports[call.accounts[1]] = floor(call.accounts[1])
ScenarioDonate ==
    /\ scenario.step = 1
    /\ call.op = "donate" /\ Len(call.accounts) >= 3 /\ call.is_signer
    /\ call.accounts[1] = scenario.writing
    /\ owner(call.accounts[2]) = ProgramId
ScenarioWithdraw(step, amount) ==
    /\ scenario.step = step
    /\ call.op = "withdraw" /\ call.is_signer
    /\ call.accounts = << scenario.writing, scenario.admin >>
    /\ request.ok /\ request.amount = amount

\* what the scenario says of each step
ScenarioOutcome ==
    /\ ScenarioCreate =>
          /\ ret.result = "Ok"
          /\ front(ret.data[call.accounts[1]]).val.amount_donated = 0
    /\ ScenarioDonate =>
          /\ ret.result = "Ok"
          /\ front(ret.data[scenario.writing]).val.amount_donated = lamports[call.accounts[2]]
          /\ ret.lamports[scenario.writing] = floor(scenario.writing) + lamports[call.accounts[2]]
          /\ ret.lamports[call.accounts[2]] = 0
    /\ ScenarioWithdraw(2, scenario.moved) =>
          /\ ret.result = "Ok"
          /\ ret.lamports[scenario.writing] = floor(scenario.writing)
          /\ ret.lamports[scenario.admin] = lamports[scenario.admin] + scenario.moved
    /\ ScenarioWithdraw(3, 1) =>
          ret.result = "InsufficientFunds"

ScenarioOnFittingCellAndDistinctAccounts ==
    /\ ScenarioCreate =>
          /\ Len(serialize(stored(call.payload).val)) = Len(data[call.accounts[1]])
          /\ call.accounts[2] # call.accounts[1]
    /\ call.op # "create" /\ scenario.step > 0 =>
          /\ stored(data[scenario.writing]).ok
          /\ scenario.admin # scenario.writing
          /\ ScenarioDonate => call.accounts[2] # scenario.writing

C14_CreateOverwritesWholeCell ==
    call.op = "create" /\ ret.result = "Ok" =>
        /\ stored(ret.data[call.accounts[1]]).ok
        /\ stored(ret.data[call.accounts[1]]).val =
               [stored(call.payload).val EXCEPT !.amount_donated = 0]

\* the error kind of the earliest precondition a Create violates, in the order
\* signer, program ownership, payload decode, admin match, minimum balance
CreateEarliestViolation ==
    IF ~call.is_signer THEN "AuthorizationError"
    ELSE IF owner(call.accounts[1]) # ProgramId THEN "OwnershipError"
    ELSE IF ~stored(call.payload).ok THEN "DataCorruption"
    ELSE IF stored(call.payload).val.admin # key(call.accounts[2]) THEN "InvalidInstruction"
    ELSE IF lamports[call.accounts[1]] < floor(call.accounts[1]) THEN "InsufficientFunds"
    ELSE "none"

\* C15: a Create that violates several preconditions at once fails with the
\* error kind of the earliest violated one in the order signer, program
\* ownership, payload decode, admin match, minimum balance; a missing signer
\* is reported as AuthorizationError and a writing account the program does
\* not own as the distinct OwnershipError.
C15_EarliestViolationDecidesErrorKind ==
    call.op = "create" /\ Len(call.accounts) >= 2 /\ CreateEarliestViolation # "none" =>
        ErrorKind(ret.result) = CreateEarliestViolation

\* C16: once Create has succeeded on a writing account, the account's balance
\* is at least its rent floor in every later state, whatever calls follow.
C16_CampaignStaysRentExempt ==
    \A a \in Accounts : created[a] # NotCreated => lamports[a] >= floor(a)

\* C17: the balance of an account that holds a campaign record decreases only
\* in a successful Withdraw signed by the admin stored in the record; no other
\* call, in particular no Donate that names the account as staging account,
\* lowers it.
C17_OnlyAdminWithdrawLowersBalance ==
    HostCommits =>
        \A a \in Accounts :
            created[a] # NotCreated /\ ret.lamports[a] < lamports[a] =>
                WithdrawAuthorized /\ a = call.accounts[1]

\* C18: every Create, Withdraw and Donate call, successful or failed and
\* whichever accounts are passed in which positions, leaves the sum of the
\* balances of all accounts unchanged.
C18_CallsConserveLamports ==
    call.op \in {"create", "withdraw", "donate"} =>
        TotalLamports(ret.lamports) = TotalLamports(lamports)

\* a successful Donate leaves admin, name, description and image_link of the
\* record as they were and changes no balance but the writing account's and
\* the staging account's
DonateTouchesOnlyAmountAndTwoBalances ==
    LET old == stored(data[call.accounts[1]]).val
        new == front(ret.data[call.accounts[1]]).val
    IN  /\ new.admin = old.admin
        /\ new.name = old.name
        /\ new.description = old.description
        /\ new.image_link = old.image_link
        /\ \A a \in Accounts \ {call.accounts[1], call.accounts[2]} :
               ret.lamports[a] = lamports[a]

\* C19 as stated: a successful Donate leaves the record's admin, name,
\* description and image_link unchanged and changes no balance other than the
\* writing account's and the staging account's; the signing donor's balance is
\* untouched.
C19_DonateLeavesDonorBalance ==
    call.op = "donate" /\ ret.result = "Ok" =>
        /\ DonateTouchesOnlyAmountAndTwoBalances
        /\ ret.lamports[call.accounts[3]] = lamports[call.accounts[3]]

\* C19 (amended): a successful Donate leaves the record's admin, name,
\* description and image_link unchanged and changes no balance other than the
\* writing account's and the staging account's; the signing donor's balance is
\* untouched unless the donor account is itself passed as the writing or the
\* staging account.
C19_DonateLeavesOtherBalances ==
    call.op = "donate" /\ ret.result = "Ok" =>
        /\ DonateTouchesOnlyAmountAndTwoBalances
        /\ call.accounts[3] \notin {call.accounts[1], call.accounts[2]} =>
               ret.lamports[call.accounts[3]] = lamports[call.accounts[3]]

\* a donor that is neither account donates a positive amount to a named campaign
C19_Witness ==
    /\ call.op = "donate" /\ ret.result = "Ok"
    /\ call.accounts[3] \notin {call.accounts[1], call.accounts[2]}
    /\ lamports[call.accounts[2]] > 0
    /\ stored(data[call.accounts[1]]).val.name # <<>>

\* C20: a Donate never makes amount_donated or the writing account's balance
\* wrap around: when the old amount_donated + the moved amount, or the old
\* writing balance + the moved amount, exceeds the largest u64, the call does
\* not commit a smaller value.
C20_DonateNeverWraps ==
    call.op = "donate" /\ HostCommits =>
        /\ front(ret.data[call.accounts[1]]).val.amount_donated
               >= front(data[call.accounts[1]]).val.amount_donated
        /\ ret.lamports[call.accounts[1]] >= lamports[call.accounts[1]]

====
